---- MODULE Spec2Model ----
(***************************************************************************)
(* Model of RAMCloud's client-side UnsyncedRpcTracker                      *)
(* (src/src/UnsyncedRpcTracker.cc): the per-master queues of unsynced      *)
(* RPCs, garbage collection by log state, blocking sync, the fan-in        *)
(* sync(callback), and flushSession.                                       *)
(***************************************************************************)
EXTENDS Integers, Sequences, FiniteSets, TLC

\* ---------------------------------------------------------------- bounds
MaxWrites == 2      \* registerUnsynced calls in one behaviour
MaxPos == 2         \* largest log offset
MaxRounds == 1      \* sync(callback) calls in one behaviour
MaxResend == 1      \* transport errors on one retry

Sessions == {1, 2}
\* The transport thread reports session failures (flushSession); either thread
\* runs every other operation, the blocking sync operations included.
AppThread == "app"
TransportThread == "transport"
Threads == {AppThread, TransportThread}
NoSession == 0
NoThread == "none"
\* no response status: the step that ran last was not the answer to a retry
NoStatus == "none"

\* ------------------------------------------------------ WireFormat::LogState
\* The log states one master reports: its appended and synced offsets both
\* only grow, so the reports of one master form a chain. The master of the
\* model appends MaxPos entries and then replicates them one by one; its
\* reports reach the tracker in any order and any number of times.
LogStates ==
    {ls \in [appended : 0..MaxPos, synced : 0..MaxPos] :
        ls.synced = 0 \/ ls.appended = MaxPos}

\* The log state a master reports with a write: the write was appended
WritePositions == {ls \in LogStates : ls.appended >= 1}

ZeroLogState == [appended |-> 0, synced |-> 0]

\* LogState::operator<
LogLess(a, b) ==
    \/ a.appended < b.appended
    \/ a.appended = b.appended /\ a.synced < b.synced

LogLE(a, b) == ~LogLess(b, a)

LogMax(a, b) == IF LogLess(a, b) THEN b ELSE a

\* LogState::isSynced: the position is replicated in the given master state
isSynced(logPosition, masterLogState) ==
    logPosition.appended <= masterLogState.synced

\* ------------------------------------------------------------------ state
VARIABLES
    masters,    \* MasterMap: session -> Master (rpcs, lastestLogState, syncRpcHolder)
    mutex,      \* the thread that holds UnsyncedRpcTracker::mutex
    pc,         \* where each thread is: "idle", "sync" or "flush"
    local,      \* locals of the blocking operation a thread is in
    nextId,     \* identity of the next registered request
    invoked,    \* how often the callback given to registerUnsynced has run
    freed,      \* how often rpcRequestPool->free ran on a request
    rounds,     \* one record per sync(callback) call: the shared counter
    last        \* the operation step that ran last, with what it saw and did

vars == <<masters, mutex, pc, local, nextId, invoked, freed, rounds, last>>

\* Tub<SyncRpc> syncRpcHolder: empty, an exchange that was sent and not yet
\* waited for, or an exchange whose response carried an error status
NoHolder == "none"

\* Master::Master(session)
NewMaster == [rpcs |-> <<>>, lastestLogState |-> ZeroLogState,
              syncRpcHolder |-> NoHolder]

NoLocal == [op |-> "none", session |-> NoSession, goals |-> <<>>,
            pre |-> <<>>, calls |-> <<>>, retry |-> FALSE, resends |-> 0]

OwnCallback(id) == [kind |-> "own", id |-> id]
EmptyCallback == [kind |-> "empty", id |-> 0]
Wrapper(r) == [kind |-> "wrapper", id |-> r]

\* UnsyncedRpc
UnsyncedRpc(id, tx, logPos, callback) ==
    [id |-> id, txWithUnsyncedPrepare |-> tx, logPosition |-> logPos,
     callback |-> callback]

Known == DOMAIN masters

NonEmpty == {s \in Known : masters[s].rpcs # <<>>}

Ids(rpcs) == {rpcs[i].id : i \in 1..Len(rpcs)}

Queued == UNION {Ids(masters[s].rpcs) : s \in Known}

Callbacks(rpcs) == [i \in 1..Len(rpcs) |-> rpcs[i].callback]

\* ------------------------------------------------------------- callbacks
\* h is the record [invoked, freed, rounds, calls]; calls lists the callbacks
\* an operation invokes, in the order in which it invokes them
Hist == [invoked |-> invoked, freed |-> freed, rounds |-> rounds,
         calls |-> <<>>]

InvokeWrapperEvery(r, h) ==
    LET rd == h.rounds[r] IN
    [h EXCEPT !.rounds[r] =
        [rd EXCEPT !.counter = @ + 1, !.fired = @ + 1, !.released = TRUE]]

\* The lambda installed by sync(callback), lines 360-369
InvokeWrapper(r, h) ==
    LET rd == h.rounds[r] IN
    IF rd.released
    THEN [h EXCEPT !.rounds[r].useAfterFree = TRUE]
    ELSE LET c == rd.counter + 1 IN
         [h EXCEPT !.rounds[r] =
            [rd EXCEPT !.counter = c,
                       !.assertFailed = @ \/ c > rd.numMasters,
                       !.fired = IF c >= rd.numMasters THEN @ + 1 ELSE @,
                       !.released = c >= rd.numMasters]]

\* rpc.callback()
InvokeCallback(cb, h) ==
    LET h1 == [h EXCEPT !.calls = Append(@, cb)] IN
    IF cb.kind = "own" THEN [h1 EXCEPT !.invoked[cb.id] = @ + 1]
    ELSE IF cb.kind = "wrapper" THEN InvokeWrapper(cb.id, h1)
    ELSE h1

\* ramcloud->rpcRequestPool->free(rpc.request.data)
FreeRequest(rpc, h) == [h EXCEPT !.freed[rpc.id] = @ + 1]

ResolveFrontAlwaysFree(rpc, h) ==
    FreeRequest(rpc, InvokeCallback(rpc.callback, h))

\* One iteration of the loop body that resolves the front entry in
\* Master::updateLogState, lines 541-545
ResolveFront(rpc, h) ==
    LET h1 == InvokeCallback(rpc.callback, h) IN
    IF ~rpc.txWithUnsyncedPrepare THEN FreeRequest(rpc, h1) ELSE h1

RECURSIVE ResolveAll(_, _)
ResolveAll(rpcs, h) ==
    IF rpcs = <<>> THEN h
    ELSE ResolveAll(Tail(rpcs), ResolveFront(Head(rpcs), h))

\* ------------------------------------------- Master::updateLogState
GcCountOne(rpcs, newLogState) ==
    IF rpcs # <<>> /\ isSynced(Head(rpcs).logPosition, newLogState) THEN 1
    ELSE 0

GcCountCovered(rpcs, newLogState) ==
    Cardinality({i \in 1..Len(rpcs) :
                    isSynced(rpcs[i].logPosition, newLogState)})

\* Number of iterations of the while loop, lines 536-546
RECURSIVE GcCount(_, _)
GcCount(rpcs, newLogState) ==
    IF rpcs = <<>> THEN 0
    ELSE IF ~isSynced(Head(rpcs).logPosition, newLogState) THEN 0
    ELSE 1 + GcCount(Tail(rpcs), newLogState)

FoldLogStateAssign(lastestLogState, newLogState) == newLogState

FoldLogStateKeep(lastestLogState, newLogState) == lastestLogState

\* lines 532-534
FoldLogState(lastestLogState, newLogState) ==
    IF LogLess(lastestLogState, newLogState) THEN newLogState
    ELSE lastestLogState

MasterUpdateLogStateNoPop(master, newLogState) ==
    [master EXCEPT !.lastestLogState = FoldLogState(@, newLogState)]

MasterUpdateLogState(master, newLogState) ==
    LET k == GcCount(master.rpcs, newLogState) IN
    [master EXCEPT
        !.lastestLogState = FoldLogState(@, newLogState),
        !.rpcs = SubSeq(@, k + 1, Len(@))]

\* The entries Master::updateLogState pops, in the order it pops them
Popped(master, newLogState) ==
    SubSeq(master.rpcs, 1, GcCount(master.rpcs, newLogState))

\* The effect of a fold of newLogState into the record m of session s;
\* repeat tells that the step before was an updateLogState for the same
\* session with a state that was not smaller
Fold(s, m, newLogState, op, repeat) ==
    LET popped == Popped(m, newLogState)
        h == ResolveAll(popped, Hist) IN
    /\ masters' = (s :> MasterUpdateLogState(m, newLogState)) @@ masters
    /\ invoked' = h.invoked
    /\ freed' = h.freed
    /\ rounds' = h.rounds
    /\ last' = [op |-> op, session |-> s, arg |-> newLogState,
                known |-> s \in Known, repeat |-> repeat,
                pre |-> m.rpcs, calls |-> h.calls, status |-> NoStatus]

Last(op, s, arg, pre, calls) ==
    [op |-> op, session |-> s, arg |-> arg,
     known |-> s \in Known, repeat |-> FALSE,
     pre |-> pre,
     calls |-> calls, status |-> NoStatus]

\* ------------------------------------------------- getOrInitMasterRecord
getOrInitMasterRecordFresh(s) == NewMaster

getOrInitMasterRecord(s) == IF s \in Known THEN masters[s] ELSE NewMaster

LockedNoMutex == \E t \in Threads : pc[t] = "idle"

\* Lock lock(mutex): some thread that is in no operation takes the free mutex
Locked == mutex = NoThread /\ \E t \in Threads : pc[t] = "idle"

Init ==
    /\ masters = <<>>
    /\ mutex = NoThread
    /\ pc = [t \in Threads |-> "idle"]
    /\ local = [t \in Threads |-> NoLocal]
    /\ nextId = 1
    /\ invoked = [w \in 1..MaxWrites |-> 0]
    /\ freed = [w \in 1..MaxWrites |-> 0]
    /\ rounds = <<>>
    /\ last = [op |-> "init", session |-> NoSession, arg |-> ZeroLogState,
               known |-> FALSE, repeat |-> FALSE, pre |-> <<>>,
               calls |-> <<>>, status |-> NoStatus]

\* ------------------------------------------------------ registerUnsynced
\* Sessions are numbered in the order in which they are first used
FirstUse(s) == \A x \in Sessions : x < s => x \in Known

Register(s, tx, logPos, op) ==
    /\ Locked
    /\ nextId <= MaxWrites
    /\ FirstUse(s)
    /\ LET m == getOrInitMasterRecord(s)
           cb == IF tx THEN EmptyCallback ELSE OwnCallback(nextId)
           m1 == [m EXCEPT !.rpcs =
                     Append(@, UnsyncedRpc(nextId, tx, logPos, cb))]
           popped == Popped(m1, logPos)
           h == ResolveAll(popped, Hist) IN
       /\ masters' = (s :> MasterUpdateLogState(m1, logPos)) @@ masters
       /\ invoked' = h.invoked
       /\ freed' = h.freed
       /\ rounds' = h.rounds
       /\ last' = [op |-> op, session |-> s, arg |-> logPos,
                   known |-> s \in Known, repeat |-> FALSE,
                   pre |-> m.rpcs, calls |-> h.calls, status |-> NoStatus]
    /\ nextId' = nextId + 1
    /\ UNCHANGED <<mutex, pc, local>>

registerUnsynced(s, logPos) == Register(s, FALSE, logPos, "registerUnsynced")

registerUnsyncedTx(s, logPos) == Register(s, TRUE, logPos, "registerUnsyncedTx")

\* -------------------------------------------------------- updateLogState
updateLogState(s, masterLogState) ==
    /\ Locked
    /\ IF s \in Known
       THEN Fold(s, masters[s], masterLogState, "updateLogState",
                 /\ last.op = "updateLogState"
                 /\ last.session = s
                 /\ last.known
                 /\ LogLE(masterLogState, last.arg))
       ELSE /\ last' = Last("updateLogState", s, ZeroLogState, <<>>, <<>>)
            /\ UNCHANGED <<masters, invoked, freed, rounds>>
    /\ UNCHANGED <<mutex, pc, local, nextId>>

\* ------------------------------------------------------- sync(callback)
InvokedAtSetupWhenIdle(numMasters) == IF numMasters = 0 THEN 1 ELSE 0

\* How often sync(callback) itself invokes callback: it returns at line 344
\* or installs the wrappers, and never calls it
InvokedAtSetup(numMasters) == 0

\* new int, *syncedMasterCounter = 0, and what the lambda captures
NewRound(numMasters, entries, tails) ==
    [numMasters |-> numMasters, counter |-> 0,
     fired |-> InvokedAtSetup(numMasters),
     released |-> FALSE, assertFailed |-> FALSE, useAfterFree |-> FALSE,
     entries |-> entries, tails |-> tails]

SetEveryCallback(rpcs, cb) == [i \in 1..Len(rpcs) |-> [rpcs[i] EXCEPT !.callback = cb]]

SetFrontAndBackCallback(rpcs, cb) ==
    [rpcs EXCEPT ![1].callback = cb, ![Len(rpcs)].callback = cb]

\* master->rpcs.back().callback = [...]{...}, line 360
SetBackCallback(rpcs, cb) == [rpcs EXCEPT ![Len(rpcs)].callback = cb]

TailIds == {masters[s].rpcs[Len(masters[s].rpcs)].id : s \in NonEmpty}

syncCallback ==
    /\ Locked
    /\ Len(rounds) < MaxRounds
    /\ LET numMasters == Cardinality(NonEmpty)
           r == Len(rounds) + 1 IN
       /\ rounds' = Append(rounds, NewRound(numMasters, Queued, TailIds))
       /\ masters' =
            IF numMasters = 0 THEN masters
            ELSE [s \in Known |->
                    IF masters[s].rpcs = <<>> THEN masters[s]
                    ELSE [masters[s] EXCEPT
                            !.rpcs = SetBackCallback(@, Wrapper(r))]]
       /\ last' = Last("syncCallback", NoSession, ZeroLogState, <<>>, <<>>)
    /\ UNCHANGED <<mutex, pc, local, nextId, invoked, freed>>

\* ------------------------------------------------ sync(), efficientSync()
RECURSIVE Concat(_, _)
\* the entries of the sessions in S, in the order of the map
Concat(S, m) ==
    IF S = {} THEN <<>>
    ELSE LET s == CHOOSE x \in S : \A y \in S : x <= y IN
         m[s].rpcs \o Concat(S \ {s}, m)

\* SyncRpc::SyncRpc: reqHdr->syncGoal = objPos; send()
SyncRpc(objPos) == "sent"

\* first loop of sync() and efficientSync(), lines 278-285 and 305-312
SyncBegin(t, sessionToSkip, op) ==
    /\ mutex = NoThread /\ pc[t] = "idle"
    /\ mutex' = t
    /\ pc' = [pc EXCEPT ![t] = "sync"]
    /\ LET contacted == NonEmpty \ {sessionToSkip} IN
       /\ masters' = [s \in Known |->
            IF s \in contacted
            THEN [masters[s] EXCEPT
                    !.syncRpcHolder = SyncRpc(masters[s].lastestLogState)]
            ELSE masters[s]]
       /\ local' = [local EXCEPT ![t] =
            [NoLocal EXCEPT !.op = op, !.session = sessionToSkip,
                            !.goals = [s \in contacted |->
                                         masters[s].lastestLogState],
                            !.pre = Concat(contacted, masters)]]
       /\ last' = Last(op \o "Begin", sessionToSkip, ZeroLogState, <<>>, <<>>)
    /\ UNCHANGED <<nextId, invoked, freed, rounds>>

sync(t) == SyncBegin(t, NoSession, "sync")

efficientSync(t, sessionToSkip) == SyncBegin(t, sessionToSkip, "efficientSync")

Holders == {s \in Known : masters[s].syncRpcHolder # NoHolder}

\* the record the second loop, lines 287-295 and 314-322, waits on next
NextHolder == CHOOSE s \in Holders : \A y \in Holders : s <= y

\* syncRpcHolder.destroy()
DestroyHolder(m) == [m EXCEPT !.syncRpcHolder = NoHolder]

\* The log state a master answers to SyncLog: it has replicated its log
\* through the goal before it answers. The goal of an exchange left over from
\* an earlier round is not kept: its answer is any log state.
SyncReplies(t, s) ==
    IF s \in DOMAIN local[t].goals
    THEN {ls \in LogStates : isSynced(local[t].goals[s], ls)}
    ELSE LogStates

\* SyncRpc::wait returns true, lines 444-448; then destroy and updateLogState
SyncReply(t, newLogState) ==
    /\ pc[t] = "sync" /\ Holders # {}
    /\ LET s == NextHolder IN
       /\ masters[s].syncRpcHolder = "sent"
       /\ newLogState \in SyncReplies(t, s)
       /\ Fold(s, DestroyHolder(masters[s]), newLogState, "syncReply", FALSE)
    /\ UNCHANGED <<mutex, pc, local, nextId>>

\* SyncRpc::wait returns false at line 437 and leaves *newLogState unset: the
\* caller folds the uninitialized local of line 317
SyncFailed(t, garbage) ==
    /\ pc[t] = "sync" /\ Holders # {}
    /\ LET s == NextHolder IN
       /\ masters[s].syncRpcHolder = "sent"
       /\ Fold(s, DestroyHolder(masters[s]), garbage, "syncFailed", FALSE)
    /\ UNCHANGED <<mutex, pc, local, nextId>>

\* SyncRpc::wait throws at line 441: the Lock is released by unwinding and the
\* holder is left constructed
SyncThrow(t) ==
    /\ pc[t] = "sync" /\ Holders # {}
    /\ LET s == NextHolder IN
       /\ masters' = [masters EXCEPT ![s].syncRpcHolder = "error"]
       /\ last' = Last("syncThrow", s, ZeroLogState, <<>>, <<>>)
    /\ mutex' = NoThread
    /\ pc' = [pc EXCEPT ![t] = "idle"]
    /\ local' = [local EXCEPT ![t] = NoLocal]
    /\ UNCHANGED <<nextId, invoked, freed, rounds>>

\* the second loop is over: sync() or efficientSync() returns
SyncReturn(t) ==
    /\ pc[t] = "sync" /\ Holders = {}
    /\ mutex' = NoThread
    /\ pc' = [pc EXCEPT ![t] = "idle"]
    /\ local' = [local EXCEPT ![t] = NoLocal]
    /\ last' = Last(local[t].op, local[t].session, ZeroLogState,
                    local[t].pre, <<>>)
    /\ UNCHANGED <<masters, nextId, invoked, freed, rounds>>

\* ---------------------------------------------------------- flushSession
\* masters.find(sessionPtr) == masters.end(): return, lines 134-139
flushUnknown(s) ==
    /\ Locked
    /\ s \notin Known
    /\ last' = Last("flushSession", s, ZeroLogState, <<>>, <<>>)
    /\ UNCHANGED <<masters, mutex, pc, local, nextId, invoked, freed, rounds>>

FlushBegin(t, s) ==
    /\ t = TransportThread
    /\ mutex = NoThread /\ pc[t] = "idle"
    /\ s \in Known
    /\ mutex' = t
    /\ pc' = [pc EXCEPT ![t] = "flush"]
    /\ local' = [local EXCEPT ![t] =
            [NoLocal EXCEPT !.op = "flushSession", !.session = s,
                            !.pre = masters[s].rpcs]]
    /\ last' = Last("flushBegin", s, ZeroLogState, <<>>, <<>>)
    /\ UNCHANGED <<masters, nextId, invoked, freed, rounds>>

FlushBack(t) ==
    masters[local[t].session].rpcs[Len(masters[local[t].session].rpcs)]

\* UnsyncedRpc& rpc = master->rpcs.front(), line 144
FlushFront(t) == Head(masters[local[t].session].rpcs)

Flushing(t) == pc[t] = "flush" /\ masters[local[t].session].rpcs # <<>>

\* master->rpcs.pop(), line 158
Pop(m) == [m EXCEPT !.rpcs = Tail(@)]

\* an entry with txWithUnsyncedPrepare: nothing but the pop, lines 145-146, 158
FlushTx(t) ==
    /\ Flushing(t)
    /\ FlushFront(t).txWithUnsyncedPrepare
    /\ LET s == local[t].session IN
       /\ masters' = [masters EXCEPT ![s] = Pop(@)]
       /\ last' = Last("flushTx", s, ZeroLogState, <<>>, <<>>)
    /\ UNCHANGED <<mutex, pc, local, nextId, invoked, freed, rounds>>

\* RetryUnsyncedRpc retryRpc(...): the constructor sends, lines 149-150
FlushSend(t) ==
    /\ Flushing(t)
    /\ ~FlushFront(t).txWithUnsyncedPrepare
    /\ ~local[t].retry
    /\ local' = [local EXCEPT ![t].retry = TRUE, ![t].resends = 0]
    /\ last' = Last("flushSend", local[t].session, ZeroLogState, <<>>, <<>>)
    /\ UNCHANGED <<masters, mutex, pc, nextId, invoked, freed, rounds>>

handleTransportErrorGiveUp(l) == [l EXCEPT !.retry = FALSE]

\* RetryUnsyncedRpc::handleTransportError, lines 483-495: the same request is
\* sent again, on a session that is looked up anew
handleTransportError(l) == [l EXCEPT !.resends = @ + 1]

\* the transport reports an error for the outstanding retry
FlushTransportError(t) ==
    /\ Flushing(t)
    /\ local[t].retry
    /\ local[t].resends < MaxResend
    /\ local' = [local EXCEPT ![t] = handleTransportError(@)]
    /\ last' = Last("flushResend", local[t].session, ZeroLogState, <<>>, <<>>)
    /\ UNCHANGED <<masters, mutex, pc, nextId, invoked, freed, rounds>>

RetryResolvedOkOnly(status) == status = "STATUS_OK"

RetryResolvedAlways(status) == TRUE

\* RetryUnsyncedRpc::wait returns, lines 502-507
RetryResolved(status) == status \in {"STATUS_OK", "STATUS_STALE_RPC"}

FlushResolveNoCallback(rpc, h) == FreeRequest(rpc, h)

\* lines 155-156: rpc.callback(); free(rpc.request.data)
FlushResolve(rpc, h) == FreeRequest(rpc, InvokeCallback(rpc.callback, h))

\* retryRpc.wait() has the response, lines 151-158 and 498-511
FlushReply(t, status) ==
    /\ Flushing(t)
    /\ local[t].retry
    /\ LET s == local[t].session
           rpc == FlushFront(t) IN
       IF RetryResolved(status)
       THEN LET h == FlushResolve(rpc, Hist) IN
            /\ masters' = [masters EXCEPT ![s] = Pop(@)]
            /\ invoked' = h.invoked
            /\ freed' = h.freed
            /\ rounds' = h.rounds
            /\ local' = [local EXCEPT ![t].retry = FALSE,
                                      ![t].resends = 0,
                                      ![t].calls = @ \o h.calls]
            /\ last' = [Last("flushReply", s, ZeroLogState, <<>>, h.calls)
                            EXCEPT !.status = status]
            /\ UNCHANGED <<mutex, pc>>
       ELSE /\ mutex' = NoThread
            /\ pc' = [pc EXCEPT ![t] = "idle"]
            /\ local' = [local EXCEPT ![t] = NoLocal]
            /\ last' = [Last("flushThrow", s, ZeroLogState, local[t].pre,
                             local[t].calls) EXCEPT !.status = status]
            /\ UNCHANGED <<masters, invoked, freed, rounds>>
    /\ UNCHANGED <<nextId>>

\* the queue is empty: flushSession returns, line 160
FlushReturn(t) ==
    /\ pc[t] = "flush"
    /\ masters[local[t].session].rpcs = <<>>
    /\ mutex' = NoThread
    /\ pc' = [pc EXCEPT ![t] = "idle"]
    /\ local' = [local EXCEPT ![t] = NoLocal]
    /\ last' = Last("flushSession", local[t].session, ZeroLogState,
                    local[t].pre, local[t].calls)
    /\ UNCHANGED <<masters, nextId, invoked, freed, rounds>>

RetryStatuses == {"STATUS_OK", "STATUS_STALE_RPC", "STATUS_RETRY"}

Next ==
    \/ \E s \in Sessions, p \in WritePositions : registerUnsynced(s, p)
    \/ \E s \in Sessions, p \in WritePositions : registerUnsyncedTx(s, p)
    \/ \E s \in Sessions, p \in LogStates : updateLogState(s, p)
    \/ syncCallback
    \/ \E t \in Threads : sync(t)
    \/ \E t \in Threads, s \in Sessions : efficientSync(t, s)
    \/ \E t \in Threads, p \in LogStates : SyncReply(t, p)
    \/ \E t \in Threads, p \in LogStates : SyncFailed(t, p)
    \/ \E t \in Threads : SyncThrow(t)
    \/ \E t \in Threads : SyncReturn(t)
    \/ \E s \in Sessions : flushUnknown(s)
    \/ \E t \in Threads, s \in Sessions : FlushBegin(t, s)
    \/ \E t \in Threads : FlushTx(t)
    \/ \E t \in Threads : FlushSend(t)
    \/ \E t \in Threads : FlushTransportError(t)
    \/ \E t \in Threads, st \in RetryStatuses : FlushReply(t, st)
    \/ \E t \in Threads : FlushReturn(t)

Spec == Init /\ [][Next]_vars

\* The steps the thread inside flushSession takes by itself, given that the
\* retry it waits for is answered
FlushStep(t) ==
    \/ FlushTx(t)
    \/ FlushSend(t)
    \/ \E st \in RetryStatuses : FlushReply(t, st)
    \/ FlushReturn(t)

\* The flushing thread keeps running, and every retry is answered in the end
FairSpec == Spec /\ \A t \in Threads : WF_vars(FlushStep(t))

\* ------------------------------------------------------------ properties
Sorted(rpcs) ==
    \A i \in 1..(Len(rpcs) - 1) :
        LogLE(rpcs[i].logPosition, rpcs[i + 1].logPosition)

CoveredIdx(rpcs, S) ==
    {i \in 1..Len(rpcs) : isSynced(rpcs[i].logPosition, S)}

NotTx(rpc) == ~rpc.txWithUnsyncedPrepare

Stored(s) == masters[s].lastestLogState

\* C1: updateLogState(S) on a queue registered in non-decreasing log-position
\* order removes exactly the entries S covers, which are a prefix of the queue,
\* invokes the callback of each removed entry once and in queue order, and
\* leaves the other entries queued with their callbacks uninvoked.
C1_UpdateRemovesCoveredPrefix ==
    (last.op = "updateLogState" /\ last.known /\ Sorted(last.pre)) =>
        LET cov == CoveredIdx(last.pre, last.arg)
            k == Cardinality(cov) IN
        /\ cov = 1..k
        /\ masters[last.session].rpcs = SubSeq(last.pre, k + 1, Len(last.pre))
        /\ last.calls = [i \in 1..k |-> last.pre[i].callback]

C1_Witness ==
    /\ last.op = "updateLogState" /\ last.known /\ Sorted(last.pre)
    /\ Len(last.pre) = 2
    /\ Len(last.calls) = 1
    /\ Len(masters[last.session].rpcs) = 1

\* C2: the callback given to registerUnsynced for a plain write is never
\* invoked twice, and a plain write never leaves its queue without that
\* callback having been invoked.
C2_CallbackExactlyOnce ==
    [][/\ \A w \in 1..MaxWrites : invoked'[w] <= 1
       /\ \A s \in Known : \A i \in 1..Len(masters[s].rpcs) :
            LET rpc == masters[s].rpcs[i] IN
            (NotTx(rpc) /\ rpc.id \notin Queued') => invoked'[rpc.id] = 1]_vars

\* C3: when the blocking sync() returns, every entry that was queued for a
\* contacted peer when it started has been removed from its queue and the
\* callback it was registered with has been invoked.
C3_SyncReturnsResolved ==
    last.op = "sync" =>
        \A i \in 1..Len(last.pre) :
            /\ last.pre[i].id \notin Queued
            /\ last.pre[i].callback.kind = "own" => invoked[last.pre[i].id] = 1

\* C4: the callback of a sync(callback) call that found N >= 1 peers with
\* pending writes is invoked at most once, and not while an entry that was
\* queued at the call is still queued.
C4_FanInOnlyAfterAllDrained ==
    \A r \in DOMAIN rounds :
        rounds[r].numMasters >= 1 =>
            /\ rounds[r].fired <= 1
            /\ rounds[r].fired >= 1 => rounds[r].entries \cap Queued = {}

C4_Witness ==
    \E r \in DOMAIN rounds :
        /\ rounds[r].numMasters = 2
        /\ rounds[r].fired = 1

\* C5: once every entry that was the tail of a queue at a sync(callback) call
\* has left its queue, the callback of that call has been invoked.
C5_FanInFiresWhenTailsLeft ==
    \A r \in DOMAIN rounds :
        (rounds[r].numMasters >= 1 /\ rounds[r].tails \cap Queued = {}) =>
            rounds[r].fired >= 1

\* C6: sync(callback) called while no peer has a pending write changes no
\* tracker state, and its callback is never invoked, then or later.
C6_SyncCallbackIdle ==
    [][/\ \A r \in DOMAIN rounds' :
            rounds'[r].numMasters = 0 => rounds'[r].fired = 0
       /\ (last'.op = "syncCallback" /\ NonEmpty = {}) =>
            /\ UNCHANGED <<masters, mutex, pc, local, nextId, invoked, freed>>
            /\ SubSeq(rounds', 1, Len(rounds)) = rounds]_vars

C6_Witness ==
    /\ \E r \in DOMAIN rounds : rounds[r].numMasters = 0
    /\ last.op = "updateLogState"
    /\ last.calls # <<>>

\* C7: registerUnsynced of a write whose position the stored log state of its
\* peer already covers invokes the write's callback within the call and does
\* not leave the write in the queue.
C7_RegisterCoveredResolves ==
    [][(/\ last'.op = "registerUnsynced"
        /\ nextId' = nextId + 1
        /\ last'.session \in Known
        /\ isSynced(last'.arg, Stored(last'.session)))
       => (nextId \notin Queued' /\ invoked'[nextId] = 1)]_vars

FoldOps == {"registerUnsynced", "registerUnsyncedTx", "updateLogState",
            "syncReply", "syncFailed"}

C9_StoredStateMonotonic ==
    [][/\ \A s \in Known :
            /\ s \in Known'
            /\ LogLE(Stored(s), masters'[s].lastestLogState)
       /\ (last'.op \in FoldOps /\ last'.session \in Known') =>
            LET s == last'.session
                before == IF s \in Known THEN Stored(s) ELSE ZeroLogState
                after == masters'[s].lastestLogState IN
            /\ after \in {before, last'.arg}
            /\ LogLE(before, after)
            /\ LogLE(last'.arg, after)]_vars

C9_Witness ==
    /\ last.op \in {"updateLogState", "syncFailed"} /\ last.known
    /\ LogLess(last.arg, Stored(last.session))
    /\ last.calls # <<>>

\* C10: flushSession for a session without a record changes nothing and sends
\* no retry; a flushSession that returns has invoked the callback of every
\* entry of the queue that is no transaction entry, in queue order, and leaves
\* the record in the tracker with an empty queue.
C10_FlushSession ==
    [][/\ (last'.op = "flushSession" /\ ~last'.known) =>
            UNCHANGED <<masters, mutex, pc, local, nextId, invoked, freed,
                        rounds>>
       /\ (last'.op = "flushSession" /\ last'.known) =>
            /\ last'.session \in Known'
            /\ masters'[last'.session].rpcs = <<>>
            /\ last'.calls = Callbacks(SelectSeq(last'.pre, NotTx))]_vars

C10_Witness ==
    /\ last.op = "flushSession" /\ last.known
    /\ Len(last.pre) = 2
    /\ Len(last.calls) = 1
    /\ last.session \in Known

\* C11: a flushSession never removes an entry that is backed by a
\* transaction-prepare unit from the tracker unless it has sent a retry for it
\* or has invoked its callback.
C11_FlushKeepsTxEntries ==
    [][\A t \in Threads : \A s \in Known : \A i \in 1..Len(masters[s].rpcs) :
            LET rpc == masters[s].rpcs[i] IN
            (/\ pc[t] = "flush"
             /\ rpc.txWithUnsyncedPrepare
             /\ rpc.id \notin Queued')
            => \/ local[t].retry
               \/ \E j \in 1..Len(last'.calls) : last'.calls[j] = rpc.callback]_vars

\* C12: efficientSync(sessionToSkip) sends a SyncRpc to every other master
\* with a non-empty queue and none to the master of sessionToSkip, and no step
\* of the round changes the queue, the callbacks or the stored log state of
\* that master.
C12_EfficientSyncSkips ==
    [][/\ last'.op = "efficientSyncBegin" =>
            /\ \A s \in NonEmpty \ {last'.session} :
                    masters'[s].syncRpcHolder = "sent"
            /\ last'.session \in Known =>
                    masters'[last'.session] = masters[last'.session]
       /\ \A t \in Threads :
            (/\ pc[t] = "sync"
             /\ local[t].op = "efficientSync"
             /\ local[t].session \in Known)
            => /\ masters'[local[t].session].rpcs =
                    masters[local[t].session].rpcs
               /\ masters'[local[t].session].lastestLogState =
                    masters[local[t].session].lastestLogState]_vars

\* C13: while a thread is between the first SyncRpc and the last fold of a
\* sync() or efficientSync(), it holds the mutex, the only steps taken are the
\* steps of that round, no other thread starts or continues an operation, and
\* no second blocking round is in progress.
SyncRoundOps == {"syncReply", "syncFailed", "syncThrow", "sync",
                 "efficientSync"}

C13_SyncRoundExclusive ==
    [][/\ Cardinality({t \in Threads : pc'[t] = "sync"}) <= 1
       /\ \A t \in Threads :
            pc[t] = "sync" =>
                /\ mutex = t
                /\ last'.op \in SyncRoundOps
                /\ \A u \in Threads \ {t} :
                        pc'[u] = pc[u] /\ local'[u] = local[u]
                /\ nextId' = nextId
                /\ Len(rounds') = Len(rounds)
                /\ Known' = Known]_vars

C13_Witness ==
    \E t \in Threads :
        /\ pc[t] = "sync"
        /\ last.op = "syncReply"
        /\ Holders # {}
        /\ NonEmpty # {}
        /\ \E u \in Threads \ {t} : pc[u] = "idle"

\* C14: in flushSession a retry answered with STATUS_STALE_RPC has the effect
\* of one answered with STATUS_OK: the callback of the front entry is invoked,
\* its request is freed, the entry is popped and the flush goes on with the
\* next entry; nothing in the resulting tracker state depends on which of the
\* two statuses was answered.
C14_StaleRpcResolves ==
    [][\A t \in Threads :
        (pc[t] = "flush" /\ last'.status \in {"STATUS_OK", "STATUS_STALE_RPC"})
        => LET s == local[t].session
               rpc == Head(masters[s].rpcs) IN
           /\ last'.op = "flushReply"
           /\ masters' = [masters EXCEPT ![s].rpcs = Tail(@)]
           /\ last'.calls = <<rpc.callback>>
           /\ freed' = [freed EXCEPT ![rpc.id] = @ + 1]
           /\ rpc.callback.kind = "own" =>
                invoked' = [invoked EXCEPT ![rpc.id] = @ + 1]
           /\ pc' = pc /\ mutex' = mutex
           /\ local'[t] = [local[t] EXCEPT !.retry = FALSE, !.resends = 0,
                                           !.calls = Append(@, rpc.callback)]
           /\ nextId' = nextId]_vars

C14_Witness ==
    /\ last.op = "flushReply"
    /\ last.status = "STATUS_STALE_RPC"
    /\ last.calls # <<>>
    /\ pc[TransportThread] = "flush"
    /\ masters[last.session].rpcs # <<>>

\* C15: sync(callback) changes nothing but the callback of the last entry of
\* each non-empty queue: it takes no lock across a wait, sends nothing, and
\* leaves the set of records, every stored log state, every holder and the
\* identity, order and position of every queued entry as they were. An entry
\* registered later carries its own callback, leaves the callbacks of the
\* entries before it alone, and callback is invoked as soon as the tails of the
\* call have been resolved, whether or not later entries are still queued.
SameButCallback(a, b) == [a EXCEPT !.callback = b.callback] = b

C15_SyncCallbackFrame ==
    [][/\ last'.op = "syncCallback" =>
            /\ UNCHANGED <<mutex, pc, local, nextId, invoked, freed>>
            /\ Known' = Known
            /\ \A s \in Known :
                /\ masters'[s].lastestLogState = masters[s].lastestLogState
                /\ masters'[s].syncRpcHolder = masters[s].syncRpcHolder
                /\ Len(masters'[s].rpcs) = Len(masters[s].rpcs)
                /\ \A i \in 1..Len(masters[s].rpcs) :
                    IF i = Len(masters[s].rpcs)
                    THEN SameButCallback(masters[s].rpcs[i],
                                         masters'[s].rpcs[i])
                    ELSE masters'[s].rpcs[i] = masters[s].rpcs[i]
       /\ last'.op \in {"registerUnsynced", "registerUnsyncedTx"} =>
            LET s == last'.session
                n == Len(masters'[s].rpcs) IN
            /\ nextId \in Queued' =>
                /\ masters'[s].rpcs[n].id = nextId
                /\ masters'[s].rpcs[n].callback =
                     IF last'.op = "registerUnsynced"
                     THEN OwnCallback(nextId) ELSE EmptyCallback
            /\ \A x \in Known : \A i \in 1..Len(masters[x].rpcs) :
                 masters[x].rpcs[i].id \in Queued' =>
                    \E j \in 1..Len(masters'[x].rpcs) :
                        masters'[x].rpcs[j] = masters[x].rpcs[i]
       /\ \A r \in DOMAIN rounds :
            LET n == Cardinality({k \in 1..Len(last'.calls) :
                                    last'.calls[k] = Wrapper(r)}) IN
            (/\ last'.op \notin {"flushSession", "flushThrow"}
             /\ rounds[r].numMasters >= 1
             /\ rounds[r].counter < rounds[r].numMasters
             /\ rounds[r].counter + n = rounds[r].numMasters)
            => rounds'[r].fired = 1]_vars

C15_Witness ==
    \E r \in DOMAIN rounds :
        /\ rounds[r].fired = 1
        /\ Queued \ rounds[r].entries # {}
        /\ \E k \in 1..Len(last.calls) : last.calls[k] = Wrapper(r)

\* C16: when a master contacted by sync() or efficientSync() is unreachable
\* (SyncRpc::wait returns false), the queue and the stored log state of that
\* master are left as they were, no callback is invoked for it, and the round
\* goes on with the other masters.
C16_UnreachableLeavesRecord ==
    [][last'.op = "syncFailed" =>
        LET s == last'.session IN
        /\ masters'[s].rpcs = masters[s].rpcs
        /\ masters'[s].lastestLogState = masters[s].lastestLogState
        /\ last'.calls = <<>>
        /\ UNCHANGED <<invoked, freed, rounds>>
        /\ pc' = pc /\ mutex' = mutex]_vars

\* C17: at every point of a flushSession the queue is what is left of the
\* queue it started with after some number k of entries was removed from the
\* front, the callbacks invoked so far are those of the plain entries among
\* these k, in queue order, and a retry that is outstanding is the retry of
\* entry k + 1: it was sent after the k entries before it were answered and
\* their callbacks invoked.
C17_FlushInOrder ==
    \A t \in Threads :
        pc[t] = "flush" =>
            LET s == local[t].session
                pre == local[t].pre
                q == masters[s].rpcs
                k == Len(pre) - Len(q) IN
            /\ k >= 0
            /\ q = SubSeq(pre, k + 1, Len(pre))
            /\ local[t].calls = Callbacks(SelectSeq(SubSeq(pre, 1, k), NotTx))
            /\ local[t].retry =>
                    q # <<>> /\ ~Head(q).txWithUnsyncedPrepare

C17_Witness ==
    \E t \in Threads :
        /\ pc[t] = "flush"
        /\ local[t].retry
        /\ Len(local[t].pre) = 2
        /\ Len(masters[local[t].session].rpcs) = 1
        /\ Len(local[t].calls) = 1

C20_NoHolderOutsideRound ==
    (\A t \in Threads : pc[t] # "sync") => Holders = {}

\* C21: the set of sessions with a record only grows. A step adds at most the
\* session of a registerUnsynced, no step removes a record, updateLogState and
\* flushSession for a session without a record add none, and a registration
\* for a session that has a record appends to the queue of that record and
\* keeps what the record stored.
RegisterOps == {"registerUnsynced", "registerUnsyncedTx"}

C21_RecordsOnlyGrow ==
    [][/\ Known \subseteq Known'
       /\ Known' # Known =>
            /\ last'.op \in RegisterOps
            /\ Known' = Known \cup {last'.session}
       /\ (last'.op \in RegisterOps /\ last'.session \in Known) =>
            LET s == last'.session
                new == UnsyncedRpc(nextId, last'.op = "registerUnsyncedTx",
                                   last'.arg,
                                   IF last'.op = "registerUnsynced"
                                   THEN OwnCallback(nextId)
                                   ELSE EmptyCallback)
                all == Append(masters[s].rpcs, new)
                k == Len(all) - Len(masters'[s].rpcs) IN
            /\ Known' = Known
            /\ k >= 0
            /\ masters'[s].rpcs = SubSeq(all, k + 1, Len(all))
            /\ LogLE(Stored(s), masters'[s].lastestLogState)
            /\ masters'[s].syncRpcHolder = masters[s].syncRpcHolder]_vars

C21_Witness ==
    /\ last.op = "registerUnsynced" /\ last.known
    /\ last.pre = <<>>
    /\ freed[1] = 1
    /\ Len(masters[last.session].rpcs) = 1
    /\ LogLess(last.arg, Stored(last.session))

\* C22: a fold of a reported log state removes a prefix of the queue, in
\* whatever order the entries were registered: every removed entry is covered
\* by the reported state, the first entry that is left is not, and an entry
\* behind it stays queued with its callback uninvoked even when the reported
\* state covers it.
GcOps == {"updateLogState", "syncReply", "syncFailed"}

C22_GcRemovesPrefixOnly ==
    (last.op \in GcOps /\ last.known) =>
        LET q == masters[last.session].rpcs
            k == Len(last.pre) - Len(q) IN
        /\ k >= 0
        /\ q = SubSeq(last.pre, k + 1, Len(last.pre))
        /\ \A i \in 1..k : isSynced(last.pre[i].logPosition, last.arg)
        /\ q # <<>> => ~isSynced(Head(q).logPosition, last.arg)
        /\ last.calls = Callbacks(SubSeq(last.pre, 1, k))
        /\ \A i \in 1..Len(q) : invoked[q[i].id] = 0 /\ freed[q[i].id] = 0

C22_Witness ==
    /\ last.op = "updateLogState" /\ last.known
    /\ Len(last.pre) = 2
    /\ ~isSynced(last.pre[1].logPosition, last.arg)
    /\ isSynced(last.pre[2].logPosition, last.arg)
    /\ masters[last.session].rpcs = last.pre
    /\ last.calls = <<>>

\* C23: the request of a plain write is freed exactly once, in the step that
\* removes the write from its queue and which has invoked the callback the
\* entry holds; no request is freed while its entry is queued or freed twice,
\* and the request of a transaction entry is never freed.
InCalls(cb) == \E j \in 1..Len(last'.calls) : last'.calls[j] = cb

C23_PayloadReleasedOnce ==
    [][/\ \A w \in 1..MaxWrites :
            /\ freed'[w] <= 1
            /\ w \in Queued' => freed'[w] = 0
            /\ freed'[w] # freed[w] =>
                    w \in Queued \cup {nextId} /\ w \notin Queued'
       /\ \A s \in Known : \A i \in 1..Len(masters[s].rpcs) :
            LET rpc == masters[s].rpcs[i] IN
            rpc.id \notin Queued' =>
                IF rpc.txWithUnsyncedPrepare
                THEN freed'[rpc.id] = 0
                ELSE /\ freed[rpc.id] = 0
                     /\ freed'[rpc.id] = 1
                     /\ InCalls(rpc.callback)
       /\ (last'.op \in RegisterOps /\ nextId \notin Queued') =>
            /\ freed'[nextId] =
                    IF last'.op = "registerUnsynced" THEN 1 ELSE 0
            /\ last'.op = "registerUnsynced" => InCalls(OwnCallback(nextId))]_vars

C23_Witness ==
    /\ last.op \in GcOps /\ last.known
    /\ Len(last.pre) = 2
    /\ masters[last.session].rpcs = <<>>
    /\ last.pre[1].txWithUnsyncedPrepare
    /\ ~last.pre[2].txWithUnsyncedPrepare
    /\ freed[last.pre[1].id] = 0
    /\ freed[last.pre[2].id] = 1

\* C24: the stored log state of a record is never less, in the LogState
\* order, than the log position of an entry in the queue of that record, and
\* the goal of a SyncRpc that a blocking round has outstanding is never less
\* than the position of an entry queued for that master.
C24_StoredCoversQueued ==
    /\ \A s \in Known : \A i \in 1..Len(masters[s].rpcs) :
            LogLE(masters[s].rpcs[i].logPosition, Stored(s))
    /\ \A t \in Threads :
            pc[t] = "sync" =>
                \A s \in DOMAIN local[t].goals :
                    \A i \in 1..Len(masters[s].rpcs) :
                        LogLE(masters[s].rpcs[i].logPosition,
                              local[t].goals[s])

C24_Witness ==
    \E t \in Threads :
        /\ pc[t] = "sync"
        /\ last.op = "syncBegin"
        /\ \E s \in DOMAIN local[t].goals :
            /\ Len(masters[s].rpcs) = 2
            /\ LogLess(masters[s].rpcs[2].logPosition, local[t].goals[s])
            /\ local[t].goals[s] = masters[s].rpcs[1].logPosition

\* C25: the counter of a sync(callback) round with N masters never exceeds N
\* (the assertion of the wrapper holds), no wrapper reads or increments it
\* after it was deleted, and a step that increments it is a step of an
\* operation that holds the mutex: an operation that takes and releases the
\* free mutex within the step, or a step of the thread that holds it.
WrapperCalls(r) ==
    Cardinality({k \in 1..Len(last'.calls) : last'.calls[k] = Wrapper(r)})

C25_CounterSafe ==
    [][/\ \A r \in DOMAIN rounds' :
            /\ rounds'[r].counter <= rounds'[r].numMasters
            /\ ~rounds'[r].assertFailed
            /\ ~rounds'[r].useAfterFree
            /\ rounds'[r].released =>
                    rounds'[r].counter = rounds'[r].numMasters
       /\ \A r \in DOMAIN rounds :
            rounds'[r].counter # rounds[r].counter =>
                /\ ~rounds[r].released
                /\ rounds'[r].counter = rounds[r].counter + WrapperCalls(r)
                /\ IF mutex = NoThread
                   THEN /\ mutex' = NoThread
                        /\ last'.op \in RegisterOps \cup {"updateLogState"}
                   ELSE /\ mutex' = mutex
                        /\ pc[mutex] \in {"sync", "flush"}
                        /\ last'.op \in
                             {"syncReply", "syncFailed", "flushReply"}]_vars

C25_Witness ==
    \E r \in DOMAIN rounds :
        /\ rounds[r].numMasters = 2
        /\ rounds[r].counter = 2
        /\ rounds[r].released
        /\ last.op = "flushReply"
        /\ mutex = TransportThread

====
